---- MODULE Spec2Model ----
(***************************************************************************)
(* Model of pkg/codegen/pluggen.go: CuetsifyPlugins, its directory walk,   *)
(* the two generation strategies, convertImport, loadInstancesWithThema    *)
(* and toOverlay.                                                          *)
(*                                                                         *)
(* Strings are sequences of tokens.  The token alphabet is chosen so that  *)
(* the texts the code searches for ("/", ".cue", ":", the quote) occur     *)
(* only as whole tokens; the string operations of the code (Dir, Base,     *)
(* Ext, Join, Contains, Replace, Split, Index) are computed on tokens the  *)
(* way the Go functions compute them on bytes.                             *)
(***************************************************************************)
EXTENDS Naturals, Sequences, FiniteSets, TLC

VARIABLES
    tree,      \* grafana.CueSchemaFS: the set of regular files of the input tree
    module,    \* what cue.mod/module.cue declares (when the file is in the tree)
    pc,        \* position of CuetsifyPlugins
    overlay,   \* clcfg.Overlay, built by toOverlay at the start
    walk,      \* the entries fs.WalkDir(in, ".") visits, in its order
    idx,       \* position of fs.WalkDir in walk
    seen,      \* the walk closure's seen map: directories already processed
    outfiles,  \* the WriteDiffer being filled
    handed,    \* history: the files handed to a generation strategy, in order
    walkErr,   \* what cuetsify returned (the walk's error)
    load,      \* the last call of loadInstancesWithThema: what it did
    cur,       \* the last versioned file: its imports and what the re-parse gave
    ret        \* what CuetsifyPlugins returned

vars == <<tree, module, pc, overlay, walk, idx, seen, outfiles, handed, walkErr, load, cur, ret>>

\* ------------------------------------------------------------ bounds

MaxTreeSize == 3
MaxImports == 2
MaxInsts == 2

\* ------------------------------------------------------------ strings

Range(s) == {s[i] : i \in 1..Len(s)}

DotTokens == {".cue", ".txt", ".d", ".mod", ".com"}

LastIndexOf(s, t) ==
    LET I == {i \in 1..Len(s) : s[i] = t}
    IN IF I = {} THEN 0 ELSE CHOOSE i \in I : \A j \in I : j <= i

\* strings.Index: the first position of t, 0 when absent
Index(s, t) ==
    LET I == {i \in 1..Len(s) : s[i] = t}
    IN IF I = {} THEN 0 ELSE CHOOSE i \in I : \A j \in I : i <= j

\* filepath.Dir
Dir(p) ==
    LET i == LastIndexOf(p, "/")
    IN IF i = 0 THEN <<".">> ELSE IF i = 1 THEN <<"/">> ELSE SubSeq(p, 1, i - 1)

\* filepath.Base
Base(p) == SubSeq(p, LastIndexOf(p, "/") + 1, Len(p))

\* filepath.Ext: the suffix of the name that starts at its last dot
Ext(name) ==
    LET I == {i \in 1..Len(name) : name[i] \in DotTokens}
    IN IF I = {} THEN <<>>
       ELSE SubSeq(name, CHOOSE i \in I : \A j \in I : j <= i, Len(name))

\* filepath.IsAbs
IsAbs(p) == Len(p) > 0 /\ p[1] = "/"

\* filepath.Join of two elements (with the cleaning these inputs need)
Join(a, b) ==
    IF a = <<>> THEN b
    ELSE IF b = <<>> \/ b = <<".">> THEN a
    ELSE IF a = <<".">> THEN b
    ELSE IF a = <<"/">> THEN a \o b
    ELSE a \o <<"/">> \o b

\* strings.Contains
Contains(s, sub) ==
    \E i \in 1..(Len(s) + 1) : i + Len(sub) - 1 <= Len(s) /\ SubSeq(s, i, i + Len(sub) - 1) = sub

HasPrefix(s, pre) == Len(pre) <= Len(s) /\ SubSeq(s, 1, Len(pre)) = pre

\* strings.Replace(s, old, new, -1): every occurrence of old
Replace(s, old, new) == [i \in 1..Len(s) |-> IF s[i] = old THEN new ELSE s[i]]

\* the last element of strings.Split(s, "/")
SplitLast(s) == SubSeq(s, LastIndexOf(s, "/") + 1, Len(s))

RECURSIVE JoinSlash(_)
JoinSlash(names) ==
    IF Len(names) = 0 THEN <<>>
    ELSE IF Len(names) = 1 THEN names[1]
    ELSE names[1] \o <<"/">> \o JoinSlash(Tail(names))

\* ------------------------------------------------------------ constants of the program

themaPath == <<"github", ".com", "/", "grafana", "/", "thema">>

schemasPath ==
    <<"github", ".com", "/", "grafana", "/", "grafana", "/", "packages", "/",
      "grafana-schema", "/", "src", "/", "schema">>

importMap == (themaPath :> <<>>) @@ (schemasPath :> <<"@grafana/schema">>)

PanelModels(name) ==
    <<"public", "/", "app", "/", "plugins", "/", "panel", "/", name, "/", "models", ".cue">>

skipPaths ==
    << PanelModels("barchart"), PanelModels("canvas"), PanelModels("histogram"),
       PanelModels("heatmap-new"), PanelModels("candlestick"),
       PanelModels("state-timeline"), PanelModels("status-history"),
       PanelModels("table"), PanelModels("timeseries") >>

prefix == <<"/">>

cueMod == <<"cue", ".mod">>

themamodpath == JoinSlash(<<cueMod, <<"pkg">>, <<"github", ".com">>, <<"grafana">>, <<"thema">>>>)

pluginsMarker == <<"public", "/", "app", "/", "plugins">>

grafanaModule == <<"github", ".com", "/", "grafana", "/", "grafana">>

\* the caller's root argument
root == <<"/", "repo">>

\* ------------------------------------------------------------ the file trees

\* The candidate files of the input tree, listed in fs.WalkDir order (each
\* directory's entries sorted by name, a directory followed by its content).
Universe ==
    << JoinSlash(<<cueMod, <<"gen">>, <<"g", ".cue">>>>),
       JoinSlash(<<cueMod, <<"module", ".cue">>>>),
       JoinSlash(<<themamodpath, <<"t", ".cue">>>>),
       JoinSlash(<<cueMod, <<"usr">>, <<"u", ".txt">>>>),
       JoinSlash(<<<<"kinds">>, <<"a", ".cue">>>>),
       JoinSlash(<<<<"kinds">>, <<"z", ".cue">>>>),
       JoinSlash(<<<<"my", ".cue", ".d">>, <<"m", ".cue">>>>),
       JoinSlash(<<<<"my", ".gen.ts", ".d">>, <<"m", ".cue">>>>),
       PanelModels("table"),
       JoinSlash(<<Dir(PanelModels("table")), <<"other", ".cue">>>>),
       PanelModels("text") >>

moduleCue == JoinSlash(<<cueMod, <<"module", ".cue">>>>)

\* What the module field of cue.mod/module.cue evaluates to: ok = FALSE when
\* opening, reading or evaluating it fails.
ModuleDecls ==
    { [ok |-> FALSE, name |-> <<>>], [ok |-> TRUE, name |-> <<>>],
      [ok |-> TRUE, name |-> themaPath], [ok |-> TRUE, name |-> grafanaModule] }

NoModule == [ok |-> FALSE, name |-> <<>>]

\* thema.CueFS and thema.CueJointFS: the schema library's own files
themaCueFS ==
    [name |-> "thema.CueFS", files |-> {moduleCue, <<"lineage", ".cue">>}]

themaCueJointFS ==
    [name |-> "thema.CueJointFS",
     files |-> {moduleCue, <<"lineage", ".cue">>, <<"kernel", "/", "k", ".cue">>}]

CueSchemaFS == [name |-> "grafana.CueSchemaFS", files |-> tree]

\* The proper ancestor directories of a path, outermost first
Ancestors(p) ==
    LET at == SelectSeq([i \in 1..Len(p) |-> i], LAMBDA i : p[i] = "/")
    IN [k \in 1..Len(at) |-> SubSeq(p, 1, at[k] - 1)]

Under(p, d) == HasPrefix(p, d \o <<"/">>)

RECURSIVE Entries(_, _)
Entries(files, dirs) ==
    IF files = <<>> THEN <<>>
    ELSE LET p == Head(files)
             new == SelectSeq(Ancestors(p), LAMBDA d : d \notin dirs)
         IN [k \in 1..Len(new) |-> [path |-> new[k], isDir |-> TRUE]]
            \o <<[path |-> p, isDir |-> FALSE]>>
            \o Entries(Tail(files), dirs \cup Range(new))

\* fs.WalkDir(fsys, start, fn): the entries fn is called with, in order, when no
\* call returns SkipDir or an error.  An empty sequence: start does not exist.
WalkDir(files, start) ==
    LET sorted == SelectSeq(Universe, LAMBDA p : p \in files)
        all == Entries(sorted, {})
    IN IF start = <<".">> THEN <<[path |-> <<".">>, isDir |-> TRUE]>> \o all
       ELSE SelectSeq(all, LAMBDA e : e.path = start \/ Under(e.path, start))

\* ------------------------------------------------------------ errors

NoErr == [kind |-> "nil", subject |-> <<>>, import |-> <<>>, allowed |-> {}]

Err(kind, subject) == [kind |-> kind, subject |-> subject, import |-> <<>>, allowed |-> {}]

\* Lines 64-72
exclude(path) ==
    \/ \E i \in 1..Len(skipPaths) : path = skipPaths[i]
    \/ Dir(path) = cueMod

\* ------------------------------------------------------------ toOverlay


\* Mutant of toOverlay: the key is built from the entry's name, not its path
toOverlay_baseName(pre, vfs, ov, readOK) ==
    IF ~IsAbs(pre) THEN [err |-> Err("must provide absolute path prefix", pre), overlay |-> ov]
    ELSE IF ~readOK THEN [err |-> Err("read", pre), overlay |-> ov]
    ELSE LET keys == {Join(pre, Base(p)) : p \in vfs.files}
         IN [err |-> NoErr,
             overlay |-> [k \in (DOMAIN ov) \cup keys |->
                 IF k \in keys
                 THEN [fs |-> vfs.name, path |-> CHOOSE p \in vfs.files : Join(pre, Base(p)) = k]
                 ELSE ov[k]]]

\* toOverlay (and thema's load.ToOverlay, of which it is the copy): readOK is
\* whether every Open and ReadAll of the walk succeeds.  The overlay maps a key
\* to the file it was read from.
toOverlay(pre, vfs, ov, readOK) ==
    IF ~IsAbs(pre) THEN [err |-> Err("must provide absolute path prefix", pre), overlay |-> ov]
    ELSE IF ~readOK THEN [err |-> Err("read", pre), overlay |-> ov]
    ELSE LET keys == {Join(pre, p) : p \in vfs.files}
         IN [err |-> NoErr,
             overlay |-> [k \in (DOMAIN ov) \cup keys |->
                 IF k \in keys
                 THEN [fs |-> vfs.name, path |-> CHOOSE p \in vfs.files : Join(pre, p) = k]
                 ELSE ov[k]]]

\* ------------------------------------------------------------ loadInstancesWithThema

\* Mutant of discoverFn: the reserved directory is not checked
discoverFn_noCollision(e, md) ==
    IF e.isDir
    THEN IF e.path \in {Join(cueMod, <<"gen">>), Join(cueMod, <<"usr">>)}
         THEN [ret |-> "SkipDir", err |-> NoErr, set |-> FALSE, modname |-> <<>>]
         ELSE [ret |-> "nil", err |-> NoErr, set |-> FALSE, modname |-> <<>>]
    ELSE IF e.path = Join(cueMod, <<"module", ".cue">>)
    THEN IF ~md.ok
         THEN [ret |-> "err", err |-> Err("module.cue", e.path), set |-> FALSE, modname |-> <<>>]
         ELSE IF md.name = <<>>
         THEN [ret |-> "err", err |-> Err("requires non-empty module name", e.path),
               set |-> TRUE, modname |-> <<>>]
         ELSE [ret |-> "nil", err |-> NoErr, set |-> TRUE, modname |-> md.name]
    ELSE [ret |-> "nil", err |-> NoErr, set |-> FALSE, modname |-> <<>>]

\* The callback of the walk over cue.mod: what it returns for one entry, and the
\* module name it assigns (set = TRUE) when the entry is cue.mod/module.cue.
discoverFn(e, md) ==
    IF e.isDir
    THEN IF e.path \in {Join(cueMod, <<"gen">>), Join(cueMod, <<"usr">>)}
         THEN [ret |-> "SkipDir", err |-> NoErr, set |-> FALSE, modname |-> <<>>]
         ELSE IF e.path = themamodpath
         THEN [ret |-> "err", err |-> Err("already exists in modFS", themamodpath),
               set |-> FALSE, modname |-> <<>>]
         ELSE [ret |-> "nil", err |-> NoErr, set |-> FALSE, modname |-> <<>>]
    ELSE IF e.path = Join(cueMod, <<"module", ".cue">>)
    THEN IF ~md.ok
         THEN [ret |-> "err", err |-> Err("module.cue", e.path), set |-> FALSE, modname |-> <<>>]
         ELSE IF md.name = <<>>
         THEN [ret |-> "err", err |-> Err("requires non-empty module name", e.path),
               set |-> TRUE, modname |-> <<>>]
         ELSE [ret |-> "nil", err |-> NoErr, set |-> TRUE, modname |-> md.name]
    ELSE [ret |-> "nil", err |-> NoErr, set |-> FALSE, modname |-> <<>>]

\* fs.WalkDir(modFS, "cue.mod", fn) from the entries still to visit: the module
\* name found, the entries fn was called with, and the error that ended the walk.
RECURSIVE Discover(_, _, _)
Discover(entries, md, acc) ==
    IF entries = <<>> THEN acc
    ELSE LET e == Head(entries)
             r == discoverFn(e, md)
             now == [acc EXCEPT !.visited = Append(@, e.path),
                                 !.modname = IF r.set THEN r.modname ELSE @]
         IN IF r.ret = "err" THEN [now EXCEPT !.err = r.err]
            ELSE IF r.ret = "SkipDir"
            THEN Discover(SelectSeq(Tail(entries), LAMBDA x : ~Under(x.path, e.path)), md, now)
            ELSE Discover(Tail(entries), md, now)

NoLoad ==
    [called |-> FALSE, err |-> NoErr, modname |-> <<>>, visited |-> <<>>, built |-> FALSE,
     overlay |-> <<>>, resolved |-> FALSE, cfg |-> <<>>]

\* loadInstancesWithThema(modFS, dir, pkgname).  md is what module.cue declares,
\* readOK whether the overlay reads succeed, instOK whether the resolved instance
\* carries no error.
loadInstancesWithThema(modFS, md, dir, pkgname, readOK, instOK) ==
    LET entries == WalkDir(modFS.files, cueMod)
        start == [modname |-> <<>>, visited |-> <<>>, err |-> NoErr]
        d == IF entries = <<>>
             THEN [start EXCEPT !.err = Err("walk", cueMod), !.visited = <<cueMod>>]
             ELSE Discover(entries, md, start)
        found == [NoLoad EXCEPT !.called = TRUE, !.modname = d.modname, !.visited = d.visited]
    IN IF d.err.kind # "nil" THEN [found EXCEPT !.err = d.err]
       ELSE IF d.modname = <<>>
       THEN [found EXCEPT !.err = Err("cue.mod/module.cue did not exist", cueMod)]
       ELSE LET modroot == Join(<<"/">>, d.modname)
                o1 == toOverlay(modroot, modFS, <<>>, readOK)
                o2 == IF d.modname = themaPath
                      THEN toOverlay(modroot, themaCueJointFS, o1.overlay, readOK)
                      ELSE toOverlay(Join(modroot, themamodpath), themaCueFS, o1.overlay, readOK)
                dir1 == IF dir = <<>> THEN <<".">> ELSE dir
                cfg == IF dir1 = <<".">>
                       THEN [ModuleRoot |-> modroot, Module |-> d.modname, Dir |-> modroot,
                             Package |-> Base(modroot)]
                       ELSE [ModuleRoot |-> modroot, Module |-> d.modname,
                             Dir |-> Join(modroot, dir1), Package |-> pkgname]
            IN IF o1.err.kind # "nil" THEN [found EXCEPT !.err = o1.err]
               ELSE IF o2.err.kind # "nil" THEN [found EXCEPT !.err = o2.err]
               ELSE [found EXCEPT !.built = TRUE, !.overlay = o2.overlay, !.resolved = TRUE,
                                  !.cfg = cfg,
                                  !.err = IF instOK THEN NoErr ELSE Err("instance", cfg.Dir)]

\* ------------------------------------------------------------ imports

\* An import declaration of a schema file: Name is the explicit alias (empty:
\* none), Path the import path without its quotes.
ImportSpecs ==
    { [Name |-> <<>>, Path |-> themaPath],
      [Name |-> <<>>, Path |-> schemasPath],
      [Name |-> <<"ui">>, Path |-> schemasPath],
      [Name |-> <<>>, Path |-> <<"some", "/", "unlisted", "/", "pkg">>] }

ImportLists == UNION {[1..n -> ImportSpecs] : n \in 0..MaxImports}

\* im.Path.Value: the literal as written, with its quotes
PathValue(im) == <<"\"">> \o im.Path \o <<"\"">>

\* strings.Trim(im.Path.Value, "\"")
Trim(v) == SubSeq(v, 2, Len(v) - 1)

convertImport(im) ==
    LET tsim == [Ident |-> <<>>, Pkg |-> importMap[schemasPath]]
    IN IF im.Name # <<>>
       THEN [tsim EXCEPT !.Ident = im.Name]
       ELSE LET final == SplitLast(PathValue(im))
                at == Index(final, ":")
            IN IF at # 0
               THEN [tsim EXCEPT !.Pkg = SubSeq(final, at, Len(final))]
               ELSE [tsim EXCEPT !.Pkg = final]

\* The loop over pf.Imports (lines 129-148) from the imports still to visit:
\* the error of the first import that is no key of importMap, or f.Imports.
RECURSIVE extractImports(_, _, _, _)
extractImports(path, imports, iseen, acc) ==
    IF imports = <<>> THEN [err |-> NoErr, Imports |-> acc]
    ELSE LET im == Head(imports)
             ip == Trim(PathValue(im))
         IN IF ip \notin DOMAIN importMap
            THEN [err |-> [kind |-> "import not allowed", subject |-> path, import |-> ip,
                           allowed |-> DOMAIN importMap],
                  Imports |-> acc]
            ELSE IF importMap[ip] # <<>> /\ ip \notin iseen
            THEN extractImports(path, Tail(imports), iseen \cup {ip}, Append(acc, convertImport(im)))
            ELSE extractImports(path, Tail(imports), iseen, acc)

\* ------------------------------------------------------------ CuetsifyPlugins


\* Mutant of qualifies: the seen map is not consulted
qualifies_noSeen(e, seenDirs) ==
    ~(e.isDir \/ Ext(Base(e.path)) # <<".cue">> \/ exclude(e.path))

\* Line 92 negated: the entry is handed to a generation strategy
qualifies(e, seenDirs) ==
    ~(e.isDir \/ Ext(Base(e.path)) # <<".cue">> \/ Dir(e.path) \in seenDirs \/ exclude(e.path))

\* The key of line 169
outKey(path) == Join(root, Replace(path, ".cue", ".gen.ts"))

\* thema.LatestVersion(lin): the version the bound lineage ends with
Versions == {<<1, 0>>}

NoCur == [path |-> <<>>, imports |-> <<>>, opened |-> FALSE, parsed |-> FALSE, pf |-> <<>>]

NoRet == [returned |-> FALSE, nilFiles |-> FALSE, files |-> <<>>, err |-> NoErr]

\* Mutant of genericBranch: the instance count is compared with 2
genericBranch_offByOne(path, n, genOK) ==
    IF n > 2 THEN Err("resulted in more than one instance", path)
    ELSE IF ~genOK THEN Err("generate", path)
    ELSE NoErr

\* The default branch of the switch (lines 102-112): n instances resolved,
\* genOK whether cuetsy.Generate succeeds.  A load error is carried by the
\* instance, which this branch does not inspect: it surfaces in Generate.
genericBranch(path, n, genOK) ==
    IF n > 1 THEN Err("resulted in more than one instance", path)
    ELSE IF ~genOK THEN Err("generate", path)
    ELSE NoErr

\* Mutant of result: the collector is returned beside the error
result_partial(files, err) ==
    [returned |-> TRUE, nilFiles |-> FALSE, files |-> files, err |-> err]

\* Lines 174-179: what CuetsifyPlugins returns once the walk has ended
result(files, err) ==
    IF err.kind # "nil"
    THEN [returned |-> TRUE, nilFiles |-> TRUE, files |-> <<>>, err |-> err]
    ELSE [returned |-> TRUE, nilFiles |-> FALSE, files |-> files, err |-> NoErr]

Prefixes(s) == {SubSeq(s, 1, n) : n \in 0..Len(s)}

Init ==
    /\ tree \in {t \in SUBSET Range(Universe) : Cardinality(t) <= MaxTreeSize}
    /\ module \in IF moduleCue \in tree THEN ModuleDecls ELSE {NoModule}
    /\ pc = "start"
    /\ overlay = <<>>
    /\ walk = <<>>
    /\ idx = 1
    /\ seen = {}
    /\ outfiles = <<>>
    /\ handed = <<>>
    /\ walkErr = NoErr
    /\ load = NoLoad
    /\ cur = NoCur
    /\ ret = NoRet

\* Lines 57-62; on success the walk of line 174 starts
NewOverlay ==
    /\ pc = "start"
    /\ \E readOK \in BOOLEAN :
         LET r == toOverlay(prefix, CueSchemaFS, <<>>, readOK)
         IN IF r.err.kind # "nil"
            THEN /\ pc' = "returned"
                 /\ ret' = [returned |-> TRUE, nilFiles |-> TRUE, files |-> <<>>, err |-> r.err]
                 /\ UNCHANGED <<overlay, walk>>
            ELSE /\ pc' = "walk"
                 /\ overlay' = r.overlay
                 /\ walk' = WalkDir(tree, <<".">>)
                 /\ UNCHANGED ret
    /\ UNCHANGED <<tree, module, idx, seen, outfiles, handed, walkErr, load, cur>>

\* The callback returns err: fs.WalkDir stops and returns it, and
\* CuetsifyPlugins returns (lines 174-177)
Abort(err) ==
    /\ walkErr' = err
    /\ pc' = "returned"
    /\ ret' = result(outfiles, err)
    /\ UNCHANGED <<idx, outfiles>>

\* Lines 165-170: render f and store it; the entry is written before the
\* template's error is returned.
Emit(path, f, tmplOK) ==
    /\ outfiles' = (outKey(path) :> [file |-> f, complete |-> tmplOK, from |-> path]) @@ outfiles
    /\ IF tmplOK
       THEN /\ idx' = idx + 1
            /\ UNCHANGED <<pc, walkErr, ret>>
       ELSE /\ walkErr' = Err("template", path)
            /\ pc' = "returned"
            /\ ret' = result(outfiles', walkErr')
            /\ UNCHANGED idx

\* Lines 92-94: the entry is skipped
Skip ==
    /\ pc = "walk"
    /\ idx <= Len(walk)
    /\ ~qualifies(walk[idx], seen)
    /\ idx' = idx + 1
    /\ load' = NoLoad
    /\ cur' = NoCur
    /\ UNCHANGED <<tree, module, pc, overlay, walk, seen, outfiles, handed, walkErr, ret>>

\* Lines 95-112, 165-170: the generic strategy
Generic ==
    /\ pc = "walk"
    /\ idx <= Len(walk)
    /\ qualifies(walk[idx], seen)
    /\ LET path == walk[idx].path
       IN /\ ~Contains(path, pluginsMarker)
          /\ seen' = seen \cup {Dir(path)}
          /\ \E n \in 1..MaxInsts, genOK \in BOOLEAN, tmplOK \in BOOLEAN :
               LET err == genericBranch(path, n, genOK)
                   f == [V |-> <<0, 0>>, WriteModelVersion |-> FALSE, Imports |-> <<>>,
                         Body |-> <<"generated", path>>]
               IN /\ handed' = Append(handed, [path |-> path, strategy |-> "generic",
                                                cfgDir |-> Join(root, Dir(path)), insts |-> n])
                  /\ IF err.kind # "nil" THEN Abort(err) ELSE Emit(path, f, tmplOK)
    /\ load' = NoLoad
    /\ cur' = NoCur
    /\ UNCHANGED <<tree, module, overlay, walk>>

\* Lines 95-100, 114-163, 165-170: the versioned (plugin) strategy.  in.Open
\* and parser.ParseFile drop their errors: when the file cannot be opened or
\* read, pf is nil and pf.Imports panics; when the parse fails, pf holds the
\* imports parsed before the error.
Versioned ==
    /\ pc = "walk"
    /\ idx <= Len(walk)
    /\ qualifies(walk[idx], seen)
    /\ LET path == walk[idx].path
           dir == Dir(path)
       IN /\ Contains(path, pluginsMarker)
          /\ seen' = seen \cup {dir}
          /\ handed' = Append(handed, [path |-> path, strategy |-> "versioned",
                                       cfgDir |-> Join(root, dir), insts |-> 1])
          /\ \E readOK \in BOOLEAN, instOK \in BOOLEAN :
               LET ld == loadInstancesWithThema(CueSchemaFS, module, dir, <<"grafanaschema">>,
                                                readOK, instOK)
               IN /\ load' = ld
                  /\ IF ld.err.kind # "nil"
                     THEN /\ Abort(Err("could not load CUE instance", dir))
                          /\ cur' = NoCur
                     ELSE \E imports \in ImportLists, openOK \in BOOLEAN :
                          IF ~openOK
                          THEN /\ pc' = "panicked"
                               /\ cur' = [path |-> path, imports |-> imports, opened |-> FALSE,
                                          parsed |-> FALSE, pf |-> <<>>]
                               /\ UNCHANGED <<idx, outfiles, walkErr, ret>>
                          ELSE \E parseOK \in BOOLEAN :
                               \E pf \in IF parseOK THEN {imports} ELSE Prefixes(imports) :
                               LET x == extractImports(path, pf, {}, <<>>)
                               IN /\ cur' = [path |-> path, imports |-> imports, opened |-> TRUE,
                                             parsed |-> parseOK, pf |-> pf]
                                  /\ IF x.err.kind # "nil" THEN Abort(x.err)
                                     ELSE \E bindOK \in BOOLEAN, v \in Versions,
                                             genOK \in BOOLEAN, tmplOK \in BOOLEAN :
                                          IF ~bindOK THEN Abort(Err("failed to bind lineage", path))
                                          ELSE IF ~genOK THEN Abort(Err("generate", path))
                                          ELSE Emit(path,
                                                    [V |-> v, WriteModelVersion |-> TRUE,
                                                     Imports |-> x.Imports,
                                                     Body |-> <<"generated", path>>],
                                                    tmplOK)
    /\ UNCHANGED <<tree, module, overlay, walk>>

\* Lines 174-179 after fs.WalkDir has visited every entry and returned nil
Return ==
    /\ pc = "walk"
    /\ idx > Len(walk)
    /\ pc' = "returned"
    /\ ret' = result(outfiles, walkErr)
    /\ UNCHANGED <<tree, module, overlay, walk, idx, seen, outfiles, handed, walkErr, load, cur>>

Next == NewOverlay \/ Skip \/ Generic \/ Versioned \/ Return

Spec == Init /\ [][Next]_vars

\* ------------------------------------------------------------ claims

Failed == ret.returned /\ ret.nilFiles /\ ret.files = <<>> /\ ret.err.kind # "nil"

\* C1: whenever a step of the walk fails (loading, resolution, import
\* validation, lineage binding, body emission, template rendering), what
\* CuetsifyPlugins returns is an error and a nil collector, whatever entries
\* the collector already holds.
C1_AllOrNothing ==
    (pc = "returned" /\ walkErr.kind # "nil") => (Failed /\ ret.err = walkErr)

\* C1 witness: the template of the second processed directory fails; the
\* collector holds the first directory's entry and the failing one's.
C1_Witness ==
    /\ pc = "returned"
    /\ walkErr.kind = "template"
    /\ Cardinality(DOMAIN outfiles) >= 2
    /\ \E k \in DOMAIN outfiles : ~outfiles[k].complete
    /\ Failed

HasUnlisted(imports) == \E i \in 1..Len(imports) : imports[i].Path \notin DOMAIN importMap

\* C2: when a file processed under the versioned strategy has an import path
\* that is no key of importMap, generation fails, and the error of the import
\* validation names an offending import path of the file and every key of
\* importMap.  (Read in the claim's favour: a crash of the run, and a failure
\* at an earlier or later step, count as "generation fails".)
C2_UnlistedImportFails ==
    (cur.path # <<>> /\ HasUnlisted(cur.imports) /\ pc # "panicked") =>
        /\ Failed
        /\ ret.err.kind = "import not allowed" =>
             /\ ret.err.import \in
                  {cur.imports[i].Path : i \in 1..Len(cur.imports)} \ DOMAIN importMap
             /\ DOMAIN importMap \subseteq ret.err.allowed

\* The same for the files whose re-parse succeeded (not a claim: what the
\* validation loop guarantees once it is given the file's imports).
UnlistedImportFailsWhenParsed ==
    (cur.path # <<>> /\ cur.opened /\ cur.parsed /\ HasUnlisted(cur.imports)) =>
        /\ Failed
        /\ ret.err.kind = "import not allowed"
        /\ ret.err.import \in {cur.imports[i].Path : i \in 1..Len(cur.imports)} \ DOMAIN importMap
        /\ DOMAIN importMap \subseteq ret.err.allowed

\* C3: no file under cue.mod, at any depth, is handed to a generation
\* strategy, and no collector entry is written for one.
C3_CueModNeverProcessed ==
    /\ \A i \in 1..Len(handed) : ~Under(handed[i].path, cueMod)
    /\ \A k \in DOMAIN outfiles : ~Under(outfiles[k].from, cueMod)

\* The files of directory d that are .cue files and not excluded, as positions
\* of the walk order
Candidates(d) ==
    {i \in 1..Len(walk) : /\ ~walk[i].isDir
                          /\ Dir(walk[i].path) = d
                          /\ Ext(Base(walk[i].path)) = <<".cue">>
                          /\ ~exclude(walk[i].path)}

\* C4: at most one file of a directory is handed to a generation strategy,
\* and it is the first file of the directory in walk order that is a .cue file
\* and is not excluded.
C4_OnePerDirectory ==
    \A i \in 1..Len(handed) :
        LET d == Dir(handed[i].path)
        IN /\ \A j \in 1..Len(handed) : Dir(handed[j].path) = d => j = i
           /\ \E c \in Candidates(d) : /\ walk[c].path = handed[i].path
                                       /\ \A c2 \in Candidates(d) : c <= c2

\* C4 witness: the walk has passed a second qualifying file of a directory
\* whose first qualifying file was handed to a strategy.
C4_Witness ==
    \E i \in 1..Len(handed) :
        \E c \in Candidates(Dir(handed[i].path)) :
            /\ walk[c].path # handed[i].path
            /\ c < idx
            /\ pc = "walk"

\* The identifier and specifier the spec gives to an import
ExpectedImport(im) ==
    [Ident |-> IF im.Name # <<>> THEN im.Name ELSE SplitLast(im.Path),
     Pkg |-> importMap[im.Path]]

Translatable(imports) ==
    {i \in 1..Len(imports) : /\ imports[i].Path \in DOMAIN importMap
                             /\ importMap[imports[i].Path] # <<>>}

\* C5: the Translated Import of an allow-listed import with a non-empty
\* specifier has the alias (or, without alias, the last segment of the import
\* path) as identifier and the allow-list's specifier as package.
C5_ConvertImport ==
    (/\ cur.path # <<>>
     /\ cur.opened /\ cur.parsed
     /\ outKey(cur.path) \in DOMAIN outfiles
     /\ outfiles[outKey(cur.path)].complete
     /\ Translatable(cur.pf) # {}) =>
        LET first == CHOOSE i \in Translatable(cur.pf) : \A j \in Translatable(cur.pf) : i <= j
        IN outfiles[outKey(cur.path)].file.Imports[1] = ExpectedImport(cur.pf[first])

\* C6: when opening or re-parsing the schema file fails, the run fails and
\* no output is produced.  (A crash of the run is counted as a failure here,
\* and so is a run that fails with another error.)
C6_ParseErrorsFatal ==
    (cur.path # <<>> /\ (~cur.opened \/ ~cur.parsed)) => (pc = "panicked" \/ Failed)

\* The path with only its extension replaced
WithTargetExt(p) ==
    IF Len(p) > 0 /\ p[Len(p)] = ".cue" THEN SubSeq(p, 1, Len(p) - 1) \o <<".gen.ts">> ELSE p

\* C7: the collector key of a processed file is the output root joined with
\* the input path in which only the extension is replaced.
C7_OutputKey ==
    \A k \in DOMAIN outfiles :
        outfiles[k].complete => k = root \o <<"/">> \o WithTargetExt(outfiles[k].from)

InputKey(m, p) == <<"/">> \o m \o <<"/">> \o p

LibraryKey(m, q) == <<"/">> \o m \o <<"/">> \o themamodpath \o <<"/">> \o q

\* C8: the overlay loadInstancesWithThema builds for module identity M holds
\* every file of the input tree at /M/<path>; when M is not the schema
\* library's identity it also holds every library file at
\* /M/cue.mod/pkg/github.com/grafana/thema/<path>, and every input-tree key
\* still holds the input tree's file.
C8_Overlay ==
    load.built =>
        /\ \A p \in tree : InputKey(load.modname, p) \in DOMAIN load.overlay
        /\ load.modname # themaPath =>
             /\ \A p \in tree :
                  load.overlay[InputKey(load.modname, p)] = [fs |-> "grafana.CueSchemaFS", path |-> p]
             /\ \A q \in themaCueFS.files :
                  /\ LibraryKey(load.modname, q) \in DOMAIN load.overlay
                  /\ load.overlay[LibraryKey(load.modname, q)] = [fs |-> "thema.CueFS", path |-> q]

\* C8 witness: an overlay was built for a module that is not the schema library
C8_Witness ==
    /\ load.built
    /\ load.modname = grafanaModule
    /\ Cardinality(tree) >= 3
    /\ Cardinality(DOMAIN load.overlay) = Cardinality(tree) + Cardinality(themaCueFS.files)

NoResolution == load.err.kind # "nil" /\ ~load.built /\ ~load.resolved /\ load.overlay = <<>>

HasThemaDir == \E p \in tree : Under(p, themamodpath)

\* C9: loadInstancesWithThema fails, with no overlay built and no instance
\* resolved, when the input tree holds the directory
\* cue.mod/pkg/github.com/grafana/thema, when it holds no cue.mod/module.cue,
\* and when the declared module identity is empty; the discovery never visits
\* an entry below cue.mod/gen or cue.mod/usr.
C9_ConfigErrors ==
    load.called =>
        /\ HasThemaDir => NoResolution
        /\ moduleCue \notin tree => NoResolution
        /\ (moduleCue \in tree /\ module.ok /\ module.name = <<>>) => NoResolution
        /\ \A i \in 1..Len(load.visited) :
             /\ ~Under(load.visited[i], cueMod \o <<"/", "gen">>)
             /\ ~Under(load.visited[i], cueMod \o <<"/", "usr">>)

\* C9 witness: the module file is found and declares a module, the reserved
\* directory exists, and the tree has a file below cue.mod/gen
C9_Witness ==
    /\ load.called
    /\ HasThemaDir
    /\ moduleCue \in tree /\ module.ok /\ module.name # <<>>
    /\ load.err.kind = "already exists in modFS"
    /\ NoResolution

\* C9 witness for the skipped directories: the discovery succeeded on a tree
\* with a file below cue.mod/gen
C9_SkipWitness ==
    /\ load.called
    /\ load.resolved
    /\ \E p \in tree : Under(p, cueMod \o <<"/", "gen">>)

\* The collector holds an entry written for the file
HasOutput(path) == \E k \in DOMAIN outfiles : outfiles[k].from = path

\* C10: under the generic strategy, when resolution yields more than one
\* instance the run fails with a "more than one instance" error that names
\* the directory (through the path of its file), and a directory has output
\* only when resolution yielded exactly one instance.
C10_OneInstance ==
    \A i \in 1..Len(handed) :
        handed[i].strategy = "generic" =>
            /\ handed[i].insts > 1 =>
                 /\ Failed
                 /\ ret.err.kind = "resulted in more than one instance"
                 /\ Dir(ret.err.subject) = Dir(handed[i].path)
                 /\ ~HasOutput(handed[i].path)
            /\ HasOutput(handed[i].path) => handed[i].insts = 1

\* C10 witness: the second directory of a run resolves to two instances
C10_Witness ==
    /\ Len(handed) >= 2
    /\ handed[Len(handed)].strategy = "generic"
    /\ handed[Len(handed)].insts > 1
    /\ outfiles # <<>>
    /\ Failed

\* The positions of the first occurrences of the source import paths that are
\* allow-listed with a non-empty specifier, in increasing order
FirstOccurrences(imports) ==
    SelectSeq([i \in 1..Len(imports) |-> i],
              LAMBDA i : /\ i \in Translatable(imports)
                         /\ \A j \in 1..(i - 1) : imports[j].Path # imports[i].Path)

\* The translated imports the spec gives to a file: the translation of each
\* first occurrence, in order
ExpectedImports(imports) ==
    LET at == FirstOccurrences(imports)
    IN [k \in 1..Len(at) |-> convertImport(imports[at[k]])]

\* The Generation Unit of the last versioned file was rendered and stored
HasUnit ==
    /\ cur.path # <<>>
    /\ outKey(cur.path) \in DOMAIN outfiles
    /\ outfiles[outKey(cur.path)].from = cur.path
    /\ outfiles[outKey(cur.path)].complete

\* C11: under the versioned strategy the unit's translated imports are one
\* entry per distinct source import path of the file that is allow-listed with
\* a non-empty specifier, in order of first occurrence (each entry being the
\* translation of that first occurrence), and no two entries share an
\* identifier.
C11_TranslatedImports ==
    HasUnit =>
        LET ims == outfiles[outKey(cur.path)].file.Imports
        IN /\ ims = ExpectedImports(cur.imports)
           /\ \A i, j \in 1..Len(ims) : ims[i].Ident = ims[j].Ident => i = j

\* The same for the files whose re-parse succeeded (not a claim: what the loop
\* of lines 129-148 guarantees once it is given the file's imports).
TranslatedImportsWhenParsed ==
    (HasUnit /\ cur.opened /\ cur.parsed) =>
        LET ims == outfiles[outKey(cur.path)].file.Imports
        IN /\ ims = ExpectedImports(cur.imports)
           /\ \A i, j \in 1..Len(ims) : ims[i].Ident = ims[j].Ident => i = j

\* A file with a repeated translatable path was parsed whole and its unit
\* holds one entry
DedupReached ==
    /\ HasUnit /\ cur.opened /\ cur.parsed
    /\ Len(cur.imports) = 2
    /\ cur.imports[1].Path = schemasPath /\ cur.imports[2].Path = schemasPath
    /\ cur.imports[1].Name # cur.imports[2].Name
    /\ Len(outfiles[outKey(cur.path)].file.Imports) = 1

\* The run returned the collector and no error
Succeeded == ret.returned /\ ~ret.nilFiles /\ ret.err.kind = "nil"

\* C12: after a successful run no two distinct processed files were written
\* to the same output path: the collector holds one entry per processed
\* directory, each entry being that of the directory's processed file.
C12_KeysUnique ==
    Succeeded =>
        /\ \A i, j \in 1..Len(handed) :
             outKey(handed[i].path) = outKey(handed[j].path) => i = j
        /\ Cardinality(DOMAIN ret.files) = Cardinality({Dir(handed[i].path) : i \in 1..Len(handed)})
        /\ \A i \in 1..Len(handed) :
             /\ outKey(handed[i].path) \in DOMAIN ret.files
             /\ ret.files[outKey(handed[i].path)].from = handed[i].path

\* The same for the trees in which no file path holds the target extension
\* (not a claim: the only collisions are those of the rewriting of line 169).
KeysUniqueWithoutTargetExt ==
    (Succeeded /\ \A p \in tree : ".gen.ts" \notin Range(p)) =>
        /\ \A i, j \in 1..Len(handed) :
             outKey(handed[i].path) = outKey(handed[j].path) => i = j
        /\ Cardinality(DOMAIN ret.files) = Len(handed)

====
